---- MODULE Spec2Model ----
(***************************************************************************)
(* Model of the link-embed pipeline of obsidian-link-embed:                *)
(*   src/main.ts           ObsidianLinkEmbedPlugin.embedUrl                *)
(*   src/unnamed/part_000  ImageDownloader (utils/image-downloader)        *)
(*                                                                         *)
(* The document is a sequence of lines of characters; the editor positions *)
(* are {line, ch} pairs, as in the Obsidian Editor API.                    *)
(* One embed operation is one call of embedUrl; every await of the code is *)
(* a suspension point, so each operation is a sequence of steps that may   *)
(* interleave with user edits and with the steps of other operations.      *)
(***************************************************************************)
EXTENDS Integers, Sequences, FiniteSets, TLC

\* ------------------------------------------------------------------ bounds
MaxOps == 2        \* embed operations triggered in one run
MaxEdits == 1      \* user edits (one character typed or deleted) in one run

Ops == 1..MaxOps

\* ------------------------------------------------------------------ values
Urls == {"p", "q"}                 \* texts for which isUrl holds
None == <<"none">>                 \* an absent content-type header
Absent == "absent"                 \* no file at a path
EmptyFile == "empty"               \* a file of zero bytes

Min(a, b) == IF a < b THEN a ELSE b

\* ------------------------------------------------------------------ editor
\* Obsidian Editor API, as used by embedUrl. A text is a non-empty sequence
\* of lines, a line is a sequence of characters; line l of the API (counted
\* from 0) is d[l + 1]. Positions are clipped into the document: a line past
\* the last one is the end of the document, a ch past the end of the line is
\* the end of the line.
lineCount(d) == Len(d)

getLine(d, l) == d[l + 1]

clipPos(d, p) ==
  IF p.line >= Len(d) THEN [line |-> Len(d) - 1, ch |-> Len(d[Len(d)])]
  ELSE [line |-> p.line, ch |-> Min(p.ch, Len(d[p.line + 1]))]

before(d, p) == SubSeq(d[p.line + 1], 1, p.ch)
after(d, p) == SubSeq(d[p.line + 1], p.ch + 1, Len(d[p.line + 1]))

\* the text between two clipped positions, from <= to
textBetween(d, from, to) ==
  IF from.line = to.line
  THEN << SubSeq(d[from.line + 1], from.ch + 1, to.ch) >>
  ELSE << after(d, from) >> \o SubSeq(d, from.line + 2, to.line) \o << before(d, to) >>

getRange(d, from, to) == textBetween(d, clipPos(d, from), clipPos(d, to))

\* text put between two clipped positions, from <= to
splice(d, text, from, to) ==
  SubSeq(d, 1, from.line)
    \o (IF Len(text) = 1
        THEN << before(d, from) \o text[1] \o after(d, to) >>
        ELSE << before(d, from) \o text[1] >> \o SubSeq(text, 2, Len(text) - 1)
               \o << text[Len(text)] \o after(d, to) >>)
    \o SubSeq(d, to.line + 2, Len(d))

replaceRange(d, text, from, to) == splice(d, text, clipPos(d, from), clipPos(d, to))

\* where a text inserted at the clipped position p ends
endOfInsert(text, p) ==
  IF Len(text) = 1 THEN [line |-> p.line, ch |-> p.ch + Len(text[1])]
  ELSE [line |-> p.line + Len(text) - 1, ch |-> Len(text[Len(text)])]

\* text + "\n"
addNewline(text) == text \o << <<>> >>

\* ------------------------------------------------------------------ template
\* MarkdownTemplate rendered by Mustache: a fenced block with one line per key
\* (a text of six lines, the last one not ended).
\* "#" stands for the fence line, "t" "i" "d" "u" for the keys title, image,
\* description, url; every field is a sequence of characters.
Render(title, image, description, url) ==
  << <<"#">>, <<"t">> \o title, <<"i">> \o image, <<"d">> \o description, <<"u">> \o url,
     <<"#">> >>

SPINNER == <<"S">>
Fetching == <<"F">>

\* data.title.replace: every double quote gets a backslash before it
RECURSIVE escapeQuotes(_)
escapeQuotes(s) ==
  IF s = <<>> THEN <<>>
  ELSE (IF Head(s) = "\"" THEN <<"\\", "\"">> ELSE <<Head(s)>>) \o escapeQuotes(Tail(s))

\* http://localhost:8181/ followed by imageName
localUrl(imageName) == <<"L">> \o imageName

\* ------------------------------------------------------------------ parsers
\* The registered parsers; settings.primary and settings.backup name two of them.
ParserNames == {"p1", "p2"}
primary == "p1"
backup == "p2"

\* The parser lists the commands pass to embedUrl.
ParserLists == {<<primary, backup>>} \cup {<<name>> : name \in ParserNames}

\* What parser name returns for url when it does not throw.
ParserData(name, url) ==
  IF name = "p1"
  THEN [title |-> <<"T", "\"">>, description |-> <<"D">>, image |-> "img1", url |-> <<url>>]
  ELSE [title |-> <<"V">>, description |-> <<"\"", "E">>, image |-> "img2", url |-> <<url>>]

\* ------------------------------------------------------------------ image downloader
\* What the network serves for an image URL: a body and a content-type header
\* (a sequence of characters, "/" among them, or None when there is no header).

Responses ==
  { [data |-> "b1", contentType |-> <<"image", "/", "png">>],
    [data |-> "b2", contentType |-> <<"image", "/", "png">>],
    [data |-> "b1", contentType |-> None] }

\* response.headers["content-type"] || "application/octet-stream"
headerOrDefault(h) == IF h = None \/ h = <<>> THEN <<"application", "/", "octet-stream">> ELSE h

\* contentType.split("/")
RECURSIVE split(_)
split(s) ==
  IF \A k \in 1..Len(s) : s[k] # "/" THEN <<s>>
  ELSE LET k == CHOOSE j \in 1..Len(s) : s[j] = "/" /\ \A m \in 1..(j - 1) : s[m] # "/"
       IN <<SubSeq(s, 1, k - 1)>> \o split(SubSeq(s, k + 1, Len(s)))

\* contentType.split("/")[1] || "jpg"
getExtensionFromContentType(contentType) ==
  LET parts == split(contentType)
  IN IF Len(parts) >= 2 /\ parts[2] # <<>> THEN parts[2] ELSE <<"jpg">>

\* crypto.createHash("sha256").update(fileBuffer).digest("hex"): one digest per content
computeFileHash(bytes) ==
  CASE bytes = EmptyFile -> "h0"
    [] bytes = "b1" -> "h1"
    [] bytes = "b2" -> "h2"

\* fileHash, a dot, extension
finalFileName(fileHash, extension) == <<fileHash, ".">> \o extension

\* ------------------------------------------------------------------ state
VARIABLES
  doc,       \* the text of the document in the editor
  temp,      \* the file at tempPath (<vault>/attachments/temp_image), or Absent
  dest,      \* the files of finalPath (<vault>/attachments/): records [name, bytes]
  ops,       \* the embedUrl calls: their locals, their position, what they did so far
  edits      \* number of user edits so far

vars == <<doc, temp, dest, ops, edits>>

\* this.settings is read where it is used (inPlace when embedUrl is called,
\* delay before the commit) and the settings tab may change it at any time:
\* each read is an input.
Delays == {0, 1}

origin == [line |-> 0, ch |-> 0]
NoData == [title |-> <<>>, description |-> <<>>, image |-> "", url |-> <<>>]
NoResponse == [data |-> Absent, contentType |-> None]

IdleOp ==
  [ pc |-> "idle", url |-> "", selectedParsers |-> <<>>, fails |-> {}, can |-> FALSE,
    newLine |-> FALSE,
    idx |-> 0, startCursor |-> origin, endCursor |-> origin, dummyEmbed |-> <<>>,
    data |-> NoData, response |-> NoResponse, extension |-> <<>>,
    fileHash |-> "", imageName |-> <<>>, embed |-> <<>>, error |-> "", caught |-> "",
    invoked |-> <<>>, notices |-> <<>>, imageFailures |-> 0, writes |-> 0,
    result |-> "none" ]

InitDocs == { << <<>> >>, << <<>>, <<>> >>, << <<"a">> >>, << <<"q">>, <<"a">> >> }

Init ==
  /\ doc \in InitDocs
  /\ temp = Absent
  /\ dest = {}
  /\ ops = [i \in Ops |-> IdleOp]
  /\ edits = 0

\* ------------------------------------------------------------------ the user
\* What getText returns: the selected range when a text range is selected
\* (can = TRUE), else the clipboard text with the cursor as its boundary. Only
\* texts that pass checkUrlValid reach embedUrl.
Selections(d) ==
  { [can |-> FALSE, text |-> u, start |-> c, end |-> c, cursor |-> c] :
      u \in Urls, c \in {[line |-> l, ch |-> 0] : l \in 0..(lineCount(d) - 1)} }
  \cup
  { [can |-> TRUE, text |-> d[p[1] + 1][p[2]], start |-> [line |-> p[1], ch |-> p[2] - 1],
     end |-> [line |-> p[1], ch |-> p[2]], cursor |-> [line |-> p[1], ch |-> p[2]]] :
      p \in UNION { {<<l, c>> : c \in {k \in 1..Len(d[l + 1]) : d[l + 1][k] \in Urls}} :
                     l \in 0..(Len(d) - 1) } }

\* The user types one character, breaks a line, deletes one character or joins
\* two lines, anywhere in the document.
UserEdit ==
  /\ edits < MaxEdits
  /\ edits' = edits + 1
  /\ \E l \in 0..(Len(doc) - 1) :
       \/ \E c \in 0..Len(doc[l + 1]) :
            LET p == [line |-> l, ch |-> c]
            IN \/ doc' = splice(doc, << <<"x">> >>, p, p)
               \/ doc' = splice(doc, << <<>>, <<>> >>, p, p)
       \/ \E c \in 1..Len(doc[l + 1]) :
            doc' = splice(doc, << <<>> >>, [line |-> l, ch |-> c - 1], [line |-> l, ch |-> c])
       \/ /\ l + 1 < Len(doc)
          /\ doc' = splice(doc, << <<>> >>, [line |-> l, ch |-> Len(doc[l + 1])],
                           [line |-> l + 1, ch |-> 0])
  /\ UNCHANGED <<temp, dest, ops>>

\* ------------------------------------------------------------------ embedUrl
\* The locals of the try blocks go out of scope when the blocks are left.
dropLocals(o) ==
  [o EXCEPT !.data = NoData, !.response = NoResponse, !.extension = <<>>,
            !.fileHash = "", !.imageName = <<>>, !.embed = <<>>, !.error = ""]

\* main.ts 164-196, up to the first parser call: the selection is deleted when
\* in place, the dummy preview is inserted and its two ends are kept.
embedUrl(i, selected, selectedParsers, inPlace, fails) ==
  /\ ops[i].pc = "idle"
  /\ \A j \in Ops : j < i => ops[j].pc # "idle"
  /\ LET url == selected.text
         del == selected.can /\ inPlace
         d1 == IF del THEN replaceRange(doc, << <<>> >>, selected.start, selected.end) ELSE doc
         cursor == IF del THEN clipPos(d1, selected.start) ELSE selected.cursor
         lineText == getLine(d1, cursor.line)
         newLine == Len(lineText) > 0
         startCursor == clipPos(d1, IF newLine THEN [line |-> cursor.line + 1, ch |-> 0]
                                               ELSE [line |-> cursor.line, ch |-> Len(lineText)])
         dummyEmbed == addNewline(Render(Fetching, SPINNER, Fetching \o <<url>>, <<url>>))
         d2 == replaceRange(d1, dummyEmbed, startCursor, startCursor)
         endCursor == endOfInsert(dummyEmbed, startCursor)
     IN /\ doc' = d2
        /\ ops' = [ops EXCEPT ![i] =
                     [IdleOp EXCEPT !.pc = "parse", !.url = url, !.can = del,
                                    !.newLine = newLine,
                                    !.selectedParsers = selectedParsers, !.fails = fails,
                                    !.startCursor = startCursor, !.endCursor = endCursor,
                                    !.dummyEmbed = dummyEmbed,
                                    !.invoked = [k \in 1..Len(selectedParsers) |-> 0]]]
  /\ UNCHANGED <<temp, dest, edits>>

\* main.ts 258-262: the catch of the outer try
OuterCatch(i, o) ==
  /\ ops' = [ops EXCEPT ![i] =
               dropLocals([o EXCEPT !.notices = Append(@, "error"),
                                    !.pc = "done", !.result = "Aborted"])]
  /\ UNCHANGED doc

\* Mutant of InnerCatch: the dummy preview is rolled back when the image fails.
InnerCatchRollback(i, o) ==
  /\ ops' = [ops EXCEPT ![i] =
               LET next == o.idx + 1
                   last == next = Len(o.selectedParsers)
               IN dropLocals([o EXCEPT !.idx = next,
                                       !.imageFailures = @ + 1,
                                       !.notices = IF last THEN Append(@, "failed") ELSE @,
                                       !.pc = IF last THEN "done" ELSE "parse",
                                       !.result = IF last THEN "Aborted" ELSE @])]
  /\ doc' = replaceRange(doc, << <<>> >>, o.startCursor, o.endCursor)

\* Mutant of InnerCatch: errorNotice is called for every image failure, not only
\* for the one that exhausts the list.
InnerCatchNotifyEach(i, o) ==
  /\ ops' = [ops EXCEPT ![i] =
               LET next == o.idx + 1
                   last == next = Len(o.selectedParsers)
               IN dropLocals([o EXCEPT !.idx = next,
                                       !.imageFailures = @ + 1,
                                       !.notices = Append(@, "failed"),
                                       !.pc = IF last THEN "done" ELSE "parse",
                                       !.result = IF last THEN "Aborted" ELSE @])]
  /\ UNCHANGED doc

\* Mutant of InnerCatch: idx is not advanced, the loop calls the same parser
\* again.
InnerCatchRetry(i, o) ==
  /\ ops' = [ops EXCEPT ![i] =
               dropLocals([o EXCEPT !.imageFailures = @ + 1, !.pc = "parse"])]
  /\ UNCHANGED doc

\* main.ts 251-257 and the loop test of line 200: the catch of the inner try
InnerCatch(i, o) ==
  /\ ops' = [ops EXCEPT ![i] =
               LET next == o.idx + 1
                   last == next = Len(o.selectedParsers)
               IN dropLocals([o EXCEPT !.idx = next,
                                       !.imageFailures = @ + 1,
                                       !.notices = IF last THEN Append(@, "failed") ELSE @,
                                       !.pc = IF last THEN "done" ELSE "parse",
                                       !.result = IF last THEN "Aborted" ELSE @])]
  /\ UNCHANGED doc

\* main.ts 200-211: parser.parse(url); a parser that throws is caught by the
\* outer try.
Parse(i) ==
  /\ ops[i].pc = "parse"
  /\ LET o == ops[i]
         k == o.idx + 1
         called == [o EXCEPT !.invoked[k] = @ + 1]
     IN IF k \in o.fails
        THEN OuterCatch(i, called)
        ELSE /\ ops' = [ops EXCEPT ![i] =
                          [called EXCEPT !.data = ParserData(o.selectedParsers[k], o.url),
                                         !.pc = "get"]]
             /\ UNCHANGED doc
  /\ UNCHANGED <<temp, dest, edits>>

\* ------------------------------------------------------------------ downloadImage
\* part_000 46: axios.get resolves with a response or rejects.
Get(i) ==
  /\ ops[i].pc = "get"
  /\ \/ \E r \in Responses :
          ops' = [ops EXCEPT ![i].response = r, ![i].pc = "ensureFile"]
     \/ ops' = [ops EXCEPT ![i].error = "get", ![i].pc = "cleanup"]
  /\ UNCHANGED <<doc, temp, dest, edits>>

\* part_000 50: fs.ensureFile(this.tempPath) creates the file when there is none.
EnsureFile(i) ==
  /\ ops[i].pc = "ensureFile"
  /\ temp' = IF temp = Absent THEN EmptyFile ELSE temp
  /\ ops' = [ops EXCEPT ![i].pc = "write"]
  /\ UNCHANGED <<doc, dest, edits>>

\* part_000 52-56 and 19: the body is written to tempPath, the extension is
\* taken from the content type.
Write(i) ==
  /\ ops[i].pc = "write"
  /\ temp' = ops[i].response.data
  /\ ops' = [ops EXCEPT ![i].extension =
                          getExtensionFromContentType(headerOrDefault(ops[i].response.contentType)),
                        ![i].pc = "hash"]
  /\ UNCHANGED <<doc, dest, edits>>

\* part_000 23-24 and 70-74: the file at tempPath is read and hashed.
Hash(i) ==
  /\ ops[i].pc = "hash"
  /\ IF temp = Absent
     THEN ops' = [ops EXCEPT ![i].error = "readFile", ![i].pc = "cleanup"]
     ELSE ops' = [ops EXCEPT ![i].fileHash = computeFileHash(temp), ![i].pc = "move"]
  /\ UNCHANGED <<doc, temp, dest, edits>>

\* Mutant of moveToFinalPath: the move replaces the directory by the one file.
moveToEmptiedPath(dir, fileName, bytes) == {[name |-> fileName, bytes |-> bytes]}

\* fs.move(src, dst, {overwrite: true}): the entries of the directory afterwards
moveToFinalPath(dir, fileName, bytes) ==
  {f \in dir : f.name # fileName} \cup {[name |-> fileName, bytes |-> bytes]}

\* Mutant of finalEmbed: the description is rendered as the parser gave it.
finalEmbedRaw(data, imageName) ==
  addNewline(Render(escapeQuotes(data.title), localUrl(imageName), data.description, data.url))

\* main.ts 223-234: the final embed
finalEmbed(data, imageName) ==
  addNewline(Render(escapeQuotes(data.title), localUrl(imageName),
                    escapeQuotes(data.description), data.url))

\* part_000 28-31 and 79-89, then main.ts 221-239: the file at tempPath is moved
\* to its final name, the name is returned and the final embed is rendered.
Move(i) ==
  /\ ops[i].pc = "move"
  /\ IF temp = Absent
     THEN /\ ops' = [ops EXCEPT ![i].error = "move", ![i].pc = "cleanup"]
          /\ UNCHANGED <<temp, dest>>
     ELSE LET name == finalFileName(ops[i].fileHash, ops[i].extension)
          IN /\ dest' = moveToFinalPath(dest, name, temp)
             /\ temp' = Absent
             /\ \E delay \in Delays :
                  ops' = [ops EXCEPT ![i].imageName = name,
                                     ![i].embed = finalEmbed(ops[i].data, name),
                                     ![i].pc = IF delay > 0 THEN "delay" ELSE "commit"]
  /\ UNCHANGED <<doc, edits>>

\* part_000 32-36: fs.remove(this.tempPath), then the error is thrown again and
\* caught by the inner try of embedUrl (main.ts 251, which logs it). When
\* fs.remove rejects (removed = FALSE), its error leaves the catch block in
\* place of the other.
Cleanup(i, removed) ==
  /\ ops[i].pc = "cleanup"
  /\ IF removed
     THEN /\ temp' = Absent
          /\ InnerCatch(i, [ops[i] EXCEPT !.caught = ops[i].error])
     ELSE /\ temp' = temp
          /\ InnerCatch(i, [ops[i] EXCEPT !.caught = "remove"])
  /\ UNCHANGED <<dest, edits>>

\* ------------------------------------------------------------------ commit
\* main.ts 235-239: the configured delay
Delay(i) ==
  /\ ops[i].pc = "delay"
  /\ ops' = [ops EXCEPT ![i].pc = "commit"]
  /\ UNCHANGED <<doc, temp, dest, edits>>

\* Mutant of dummy: the check reads the snapshot, not the live document.
dummySnapshot(i) == ops[i].dummyEmbed

\* main.ts 242: editor.getRange(startCursor, endCursor)
dummy(i) == getRange(doc, ops[i].startCursor, ops[i].endCursor)

\* main.ts 244
CommitReplace(i) ==
  /\ doc' = replaceRange(doc, ops[i].embed, ops[i].startCursor, ops[i].endCursor)
  /\ ops' = [ops EXCEPT ![i] = dropLocals([ops[i] EXCEPT !.pc = "done", !.writes = @ + 1,
                                                          !.result = "Committed"])]

\* Mutant of CommitConflict: the final embed is put at the recorded start all
\* the same.
CommitConflictForce(i) ==
  /\ doc' = replaceRange(doc, ops[i].embed, ops[i].startCursor, ops[i].startCursor)
  /\ ops' = [ops EXCEPT ![i] = dropLocals([ops[i] EXCEPT !.pc = "done",
                                                          !.notices = Append(@, "conflict"),
                                                          !.result = "Aborted"])]

\* main.ts 245-249
CommitConflict(i) ==
  /\ doc' = doc
  /\ ops' = [ops EXCEPT ![i] = dropLocals([ops[i] EXCEPT !.pc = "done",
                                                          !.notices = Append(@, "conflict"),
                                                          !.result = "Aborted"])]

\* main.ts 241-250
Commit(i) ==
  /\ ops[i].pc = "commit"
  /\ IF dummy(i) = ops[i].dummyEmbed THEN CommitReplace(i) ELSE CommitConflict(i)
  /\ UNCHANGED <<temp, dest, edits>>

\* ------------------------------------------------------------------ specification
Trigger(i) ==
  /\ ops[i].pc = "idle"
  /\ \E selected \in Selections(doc), selectedParsers \in ParserLists :
       \E inPlace \in {b \in BOOLEAN : selected.can \/ ~b},
          fails \in SUBSET (1..Len(selectedParsers)) :
         embedUrl(i, selected, selectedParsers, inPlace, fails)

Next ==
  \/ UserEdit
  \/ \E i \in Ops : Trigger(i)
  \/ \E i \in Ops : Parse(i)
  \/ \E i \in Ops : Get(i)
  \/ \E i \in Ops : EnsureFile(i)
  \/ \E i \in Ops : Write(i)
  \/ \E i \in Ops : Hash(i)
  \/ \E i \in Ops : Move(i)
  \/ \E i \in Ops, removed \in BOOLEAN : Cleanup(i, removed)
  \/ \E i \in Ops : Delay(i)
  \/ \E i \in Ops : Commit(i)

Spec == Init /\ [][Next]_vars

\* The whole system is too large to enumerate; the claims are checked on two
\* parts of it, every behaviour of which is a behaviour of Spec.

\* One embed operation, with the user editing the document meanwhile.
NextSolo ==
  \/ UserEdit
  \/ Trigger(1)
  \/ Parse(1)
  \/ Get(1)
  \/ EnsureFile(1)
  \/ Write(1)
  \/ Hash(1)
  \/ Move(1)
  \/ \E removed \in BOOLEAN : Cleanup(1, removed)
  \/ Delay(1)
  \/ Commit(1)

InitSolo ==
  /\ Init
  /\ doc \in { << <<>> >>, << <<"q">>, <<"a">> >> }

SpecSolo == InitSolo /\ [][NextSolo]_vars

\* The continuation of an await runs when the awaited call has returned or
\* failed, and every parser call and every image-store call does one of the
\* two: a step of the operation that can be taken is taken.
Step(i) ==
  \/ Parse(i)
  \/ Get(i)
  \/ EnsureFile(i)
  \/ Write(i)
  \/ Hash(i)
  \/ Move(i)
  \/ \E removed \in BOOLEAN : Cleanup(i, removed)
  \/ Delay(i)
  \/ Commit(i)

SpecSoloFair == SpecSolo /\ WF_vars(Step(1))

\* Several embed operations in flight at once, each triggered with nothing
\* selected (the URL comes from the clipboard) and parsers that do not throw;
\* the user does not edit the document and fs.remove does not reject.
TriggerClipboard(i) ==
  /\ ops[i].pc = "idle"
  /\ \E selected \in {x \in Selections(doc) : ~x.can}, selectedParsers \in ParserLists :
       embedUrl(i, selected, selectedParsers, FALSE, {})

InitPair ==
  /\ Init
  /\ doc \in { << <<>>, <<>> >>, << <<"a">> >> }

NextPair ==
  \/ \E i \in Ops : TriggerClipboard(i)
  \/ \E i \in Ops : Parse(i)
  \/ \E i \in Ops : Get(i)
  \/ \E i \in Ops : EnsureFile(i)
  \/ \E i \in Ops : Write(i)
  \/ \E i \in Ops : Hash(i)
  \/ \E i \in Ops : Move(i)
  \/ \E i \in Ops : Cleanup(i, TRUE)
  \/ \E i \in Ops : Delay(i)
  \/ \E i \in Ops : Commit(i)

SpecPair == InitPair /\ [][NextPair]_vars

\* ------------------------------------------------------------------ claims
done(i) == ops[i].pc = "done"

\* the positions of the list whose parser does not throw
succeeding(i) == {k \in 1..Len(ops[i].selectedParsers) : k \notin ops[i].fails}

first(S) == CHOOSE k \in S : \A j \in S : k <= j

\* C1: when the parser at position k is the first of the list that succeeds
\* (and no image-store failure intervenes), the operation ends with the parsers
\* up to k invoked exactly once each, the later ones never, and it has gone on
\* with the result of parser k instead of stopping at a parser that failed.
C1_FirstSuccessWins ==
  \A i \in Ops :
    (done(i) /\ ops[i].imageFailures = 0 /\ succeeding(i) # {}) =>
      /\ \A j \in 1..Len(ops[i].selectedParsers) :
           ops[i].invoked[j] = (IF j <= first(succeeding(i)) THEN 1 ELSE 0)
      /\ "error" \notin {ops[i].notices[n] : n \in 1..Len(ops[i].notices)}

\* C2: when every parser of the list fails, the operation ends only after every
\* parser of the list has been invoked exactly once, with one failure notice.
C2_AllParsersInvoked ==
  \A i \in Ops :
    (done(i) /\ succeeding(i) = {}) =>
      /\ \A j \in 1..Len(ops[i].selectedParsers) : ops[i].invoked[j] = 1
      /\ ops[i].result = "Aborted"
      /\ Len(ops[i].notices) = 1

\* C3: an image-store failure ends the operation at once: once the image store
\* has failed, the operation is over and no further parser is invoked.
C3_ImageFailureAborts ==
  \A i \in Ops : ops[i].imageFailures > 0 => (done(i) /\ ops[i].result = "Aborted")

\* C4: a commit step that finds the text between the recorded positions
\* different from the snapshot leaves the document as it is, discards the
\* final embed and shows the conflict notice, the only one of the operation.
C4_ConflictLeavesDocument ==
  [][\A i \in Ops :
       (/\ ops[i].pc = "commit"
        /\ ops'[i].pc = "done"
        /\ getRange(doc, ops[i].startCursor, ops[i].endCursor) # ops[i].dummyEmbed)
       => /\ doc' = doc
          /\ ops[i].notices = <<>>
          /\ ops'[i].notices = <<"conflict">>
          /\ ops'[i].result = "Aborted"
          /\ ops'[i].writes = 0]_vars

C4_Witness ==
  \E i \in Ops : done(i) /\ ops[i].notices = <<"conflict">> /\ edits = 1

\* C5: the document changes only by a user edit, by the insertion of a dummy
\* preview, or by a commit that replaces, in the same step as its check, a
\* range whose text equals the snapshot of the dummy preview.
C5_CommitOverwritesOnlySnapshot ==
  [][doc' # doc =>
       \/ edits' = edits + 1
       \/ \E i \in Ops : ops[i].pc = "idle" /\ ops'[i].pc = "parse"
       \/ \E i \in Ops :
            /\ ops[i].pc = "commit" /\ ops'[i].result = "Committed"
            /\ getRange(doc, ops[i].startCursor, ops[i].endCursor) = ops[i].dummyEmbed
            /\ doc' = replaceRange(doc, ops[i].embed, ops[i].startCursor, ops[i].endCursor)]_vars

C5_Witness ==
  \E i \in Ops : edits = 1 /\ ops[i].result = "Committed"

\* C6: a step of an operation that is past its insertion and does not commit
\* leaves the document unchanged, so an operation that ends in a resolution
\* failure or an image-store failure has changed nothing but the dummy preview.
C6_FailureLeavesDocument ==
  [][\A i \in Ops :
       (ops[i].pc # "idle" /\ ops'[i] # ops[i] /\ ops'[i].result # "Committed")
       => doc' = doc]_vars

C6_Witness ==
  \E i \in Ops :
    /\ done(i) /\ ops[i].notices = <<"failed">> /\ ops[i].imageFailures = 2
    /\ getRange(doc, ops[i].startCursor, ops[i].endCursor) = ops[i].dummyEmbed

\* C7: an operation shows no notice while it runs; it has shown exactly one
\* when it has ended without committing and none when it has committed.
C7_OneNoticeUnlessCommitted ==
  \A i \in Ops :
    /\ ~done(i) => ops[i].notices = <<>>
    /\ (done(i) /\ ops[i].result = "Committed") => ops[i].notices = <<>>
    /\ (done(i) /\ ops[i].result # "Committed") =>
         (ops[i].result = "Aborted" /\ Len(ops[i].notices) = 1)

C7_Witness ==
  \E i \in Ops :
    done(i) /\ ops[i].imageFailures = 1 /\ ops[i].notices = <<"error">>

\* C8: when the user edits no dummy preview (and every operation was triggered
\* on an empty line, so that no dummy preview was put inside another one),
\* interleaved operations do not interfere: an operation whose resolution and
\* image store succeeded ends Committed, never with the conflict notice.
C8_NoInterference ==
  \A i \in Ops :
    (/\ edits = 0
     /\ \A j \in Ops : ~ops[j].newLine /\ ~ops[j].can
     /\ done(i)
     /\ ops[i].imageFailures < Len(ops[i].selectedParsers)) =>
      ops[i].result = "Committed"

\* C9: the staging file is private to an invocation: from its staging write to
\* its move, the file at the staging path holds the bytes it downloaded.
C9_StagingPrivate ==
  \A i \in Ops : ops[i].pc \in {"hash", "move"} => temp = ops[i].response.data

\* C10: every file of the destination directory is named after the digest of
\* its own bytes, and the name a store invocation returns is the digest of the
\* bytes that invocation downloaded.
C10_ContentAddressed ==
  /\ \A f \in dest : f.name[1] = computeFileHash(f.bytes)
  /\ \A i \in Ops :
       ops[i].imageName # <<>> => ops[i].imageName[1] = computeFileHash(ops[i].response.data)

\* C11: two store invocations that downloaded the same bytes return the same
\* file name, and the destination directory holds one file for those bytes.
C11_SameBytesOneArtifact ==
  \A i, j \in Ops :
    (/\ ops[i].imageName # <<>> /\ ops[j].imageName # <<>>
     /\ ops[i].response.data = ops[j].response.data) =>
      /\ ops[i].imageName = ops[j].imageName
      /\ Cardinality({f \in dest : f.bytes = ops[i].response.data}) = 1

\* C12: the extension of the stored file is the subtype of the declared
\* content type, and jpg when the header is absent or has no subtype after
\* a "/".
C12_ExtensionIsSubtype ==
  \A i \in Ops :
    ops[i].extension # <<>> =>
      ops[i].extension =
        (LET h == ops[i].response.contentType
         IN IF h = None \/ Len(split(h)) < 2 \/ split(h)[2] = <<>>
            THEN <<"jpg">> ELSE split(h)[2])

\* C13: when a step of a store invocation fails, the error the caller receives
\* is the error of that step, also when the removal of the staging file fails.
C13_OriginalErrorPropagates ==
  [][\A i \in Ops :
       (ops[i].pc = "cleanup" /\ ops'[i].pc # "cleanup") =>
         ops'[i].caught = ops[i].error]_vars

\* C14: the text a commit puts in the document is the template rendered with
\* the title, description and url of the result of the parser the operation
\* is at (double quotes escaped) and, as image, the local URL of the file name
\* the store returned to this operation.
C14_EmbedFromOwnResult ==
  [][\A i \in Ops :
       (ops[i].pc = "commit" /\ ops'[i].result = "Committed") =>
         LET o == ops[i]
             r == ParserData(o.selectedParsers[o.idx + 1], o.url)
         IN /\ o.imageName = finalFileName(o.fileHash, o.extension)
            /\ doc' = replaceRange(doc,
                        addNewline(Render(escapeQuotes(r.title), localUrl(o.imageName),
                                          escapeQuotes(r.description), r.url)),
                        o.startCursor, o.endCursor)]_vars

C14_Witness ==
  \E i, j \in Ops :
    /\ i # j /\ ops[j].result = "Committed"
    /\ ops[i].result = "Committed" /\ ops[i].idx = 1 /\ ops[i].url # ops[j].url

\* the text occurs in the document, unbroken, from position p on
occursAt(d, text, p) == getRange(d, p, endOfInsert(text, p)) = text

intact(d, text) ==
  \E l \in 0..(Len(d) - 1) : \E c \in 0..Len(d[l + 1]) :
    occursAt(d, text, [line |-> l, ch |-> c])

\* C15: an operation whose resolution and image store succeeded commits when
\* the text of its dummy preview is still in the document, unedited, at commit
\* time; it ends with the conflict notice only if that text was edited.
C15_IntactPlaceholderCommits ==
  [][\A i \in Ops :
       (ops[i].pc = "commit" /\ ops'[i].pc = "done" /\ intact(doc, ops[i].dummyEmbed)) =>
         ops'[i].result = "Committed"]_vars

\* position p is not after position q
posLeq(p, q) == p.line < q.line \/ (p.line = q.line /\ p.ch <= q.ch)

inFlight(i) == ops[i].pc \notin {"idle", "done"}

\* C16: the recorded ranges (startCursor to endCursor) of two operations in
\* flight are disjoint.
C16_RegionsDisjoint ==
  \A i, j \in Ops :
    (i # j /\ inFlight(i) /\ inFlight(j)) =>
      \/ posLeq(ops[i].endCursor, ops[j].startCursor)
      \/ posLeq(ops[j].endCursor, ops[i].startCursor)

\* C17: the insertion step puts the dummy preview at the start of a line when
\* the line of the cursor is not empty, and removing the inserted text gives
\* back the document as it was, less the selected URL when that was deleted.
C17_InsertionFrame ==
  [][\A i \in Ops :
       (ops[i].pc = "idle" /\ ops'[i].pc = "parse") =>
         LET o == ops'[i]
             removed == replaceRange(doc', << <<>> >>, o.startCursor, o.endCursor)
         IN /\ getRange(doc', o.startCursor, o.endCursor) = o.dummyEmbed
            /\ o.newLine => o.startCursor.ch = 0
            /\ ~o.can => removed = doc
            /\ o.can =>
                 \E l \in 0..(Len(doc) - 1) : \E c \in 1..Len(doc[l + 1]) :
                   /\ doc[l + 1][c] = o.url
                   /\ removed = splice(doc, << <<>> >>, [line |-> l, ch |-> c - 1],
                                       [line |-> l, ch |-> c])]_vars

\* C18: the loop of an operation calls no parser twice and does not run past
\* the end of the list; an operation that was started ends, Committed or
\* Aborted, and does nothing after that.
C18_Terminates ==
  /\ [](\A i \in Ops :
          /\ ops[i].idx <= Len(ops[i].selectedParsers)
          /\ ops[i].pc = "parse" => ops[i].idx < Len(ops[i].selectedParsers)
          /\ \A k \in 1..Len(ops[i].invoked) : ops[i].invoked[k] <= 1
          /\ done(i) => ops[i].result \in {"Committed", "Aborted"})
  /\ \A i \in Ops : (ops[i].pc # "idle") ~> done(i)
  /\ [][\A i \in Ops : done(i) => ops'[i] = ops[i]]_vars

C18_Witness ==
  \E i \in Ops :
    /\ done(i) /\ ops[i].result = "Committed" /\ ops[i].imageFailures = 1
    /\ ops[i].invoked = <<1, 1>>

\* C19: an operation is at its commit check (or at the delay before it) only
\* after its parser and its image store have succeeded, and the file the image
\* field of its final embed names is then in the attachment directory.
C19_FileExistsAtCommit ==
  \A i \in Ops :
    ops[i].pc \in {"delay", "commit"} =>
      /\ ops[i].data = ParserData(ops[i].selectedParsers[ops[i].idx + 1], ops[i].url)
      /\ ops[i].imageName # <<>>
      /\ ops[i].embed[3] = <<"i">> \o localUrl(ops[i].imageName)
      /\ \E f \in dest : f.name = ops[i].imageName

C19_Witness ==
  \E i, j \in Ops :
    /\ ops[i].pc = "commit" /\ ops[j].pc = "commit"
    /\ ops[i].imageName # ops[j].imageName

====
